---- MODULE Spec2Model ----
(***************************************************************************)
(* Model of InteractivePrompt (src/mcp_agent/core/interactive_prompt.py):  *)
(* the prompt_loop session controller, its handling of the command results *)
(* of handle_special_commands, and the prompt helpers it calls.            *)
(*                                                                         *)
(* An iteration of the `while True` loop of prompt_loop is two actions:     *)
(* Solicit enters `with progress_display.paused()` and calls               *)
(* get_enhanced_input; the second takes the input that call returns and    *)
(* the command result and does everything the iteration does with them,    *)
(* until the loop is at its top again, returns or raises.                  *)
(*                                                                         *)
(* Python values: a str is a sequence of one-character strings (so that    *)
(* str.upper is computed), except names (agents, servers, prompts), which  *)
(* are only compared and are kept as TLA+ strings.  A value whose Python   *)
(* type matters is a tagged record: [t |-> "str", s |-> ...],              *)
(* [t |-> "dict", d |-> ...], [t |-> "bool", b |-> ...].                   *)
(***************************************************************************)
EXTENDS Integers, Sequences, FiniteSets, TLC

\* cfg      the arguments of prompt_loop
\* pc       "start", "loop" (at the top of the while loop), "input" (waiting
\*          in get_enhanced_input), "done", "failed"
\* agent, result   the local variables of prompt_loop
\* paused   whether the progress display is paused
\* retval, exc     what prompt_loop returned or raised
\* last     the input, command result and answers of the iteration just done,
\*          and the agent and the result it began with
\* calls    at "input" the call of get_enhanced_input, afterwards the calls
\*          made for that input, each with the state of the display at the
\*          call; out: what was printed
\* lastReply, sendEver, acted, switched, solicited: history of the session
\*          (the last value send_func returned, whether it was called, whether
\*          a command or a send was processed, whether a switch_agent command
\*          was, whether an input was asked for)
VARIABLES cfg, pc, agent, result, paused, last, calls, out, retval, exc,
          lastReply, sendEver, acted, switched, solicited

vars == <<cfg, pc, agent, result, paused, last, calls, out, retval, exc,
          lastReply, sendEver, acted, switched, solicited>>

----------------------------------------------------------------------------
(* Bounds of the model *)

\* the longest available_agents list a session is started with
MaxAgents == 2

----------------------------------------------------------------------------
(* Python values *)

Str(s) == [t |-> "str", s |-> s]

Dict(d) == [t |-> "dict", d |-> d]

Bool(b) == [t |-> "bool", b |-> b]

\* the empty dict {}
EmptyMap == [k \in {} |-> TRUE]

\* bool(x) of a str, dict or bool
Truthy(x) ==
    CASE x.t = "str" -> x.s # <<>>
      [] x.t = "dict" -> DOMAIN x.d # {}
      [] x.t = "bool" -> x.b

IsDict(x) == x.t = "dict"

\* key in d, for a dict value
HasKey(x, k) == k \in DOMAIN x.d

\* the letters the inputs are written with, and str.upper on one character
UpperChar(c) ==
    CASE c = "s" -> "S"
      [] c = "t" -> "T"
      [] c = "o" -> "O"
      [] c = "p" -> "P"
      [] c = "h" -> "H"
      [] c = "i" -> "I"
      [] c = "k" -> "K"
      [] OTHER -> c

\* str.upper()
Upper(s) == [i \in 1..Len(s) |-> UpperChar(s[i])]

STOP == <<"S", "T", "O", "P">>

----------------------------------------------------------------------------
(* The inputs of a session *)

\* agent names; "zz" is never an available agent
AgentPool == << "a", "b", "c", "d" >>

AgentNames == { AgentPool[i] : i \in 1..MaxAgents }

UnknownAgent == "zz"

RECURSIVE ListsOver(_, _)
\* the duplicate-free lists over S of length at most n
ListsOver(S, n) ==
    IF n = 0 THEN {<<>>}
    ELSE LET shorter == ListsOver(S, n - 1)
         IN shorter \cup {Append(l, x) : l \in shorter, x \in S}

Range(s) == {s[i] : i \in DOMAIN s}

NoDup(s) == \A i, j \in DOMAIN s : s[i] = s[j] => i = j

AgentLists == {l \in ListsOver(AgentNames, MaxAgents) : NoDup(l)}

\* default_agent: "" stands for an empty or missing (None) default
DefaultAgents == AgentNames \cup {"", UnknownAgent}

\* the `default` text of prompt_loop
DefaultTexts == {<<>>, <<"h", "i">>}

\* what the user can type: messages, the sentinel in several cases, a blank
\* line, a line of one space, and a word the command handler consumes
PlainTexts ==
    { <<"h", "i">>, <<" ">>, <<>>,
      <<"S", "T", "O", "P">>, <<"s", "t", "o", "p">>, <<"S", "t", "o", "P">>,
      <<"S", "T", "O", "P", "S">> }

CommandTexts == { <<"H", "E", "L", "P">> }

\* what send_func returns
Replies == { <<"h", "i">>, <<"o", "k">> }

\* the command descriptors get_enhanced_input and handle_special_commands
\* produce: agent switches, prompt listing, prompt selection by nothing, by
\* name and by index, a descriptor the loop does not know, and the empty one
SwitchDicts == { [k \in {"switch_agent"} |-> n] : n \in AgentNames \cup {UnknownAgent} }

ListDicts == { [k \in {"list_prompts"} |-> TRUE] }

OtherDicts == { [k \in {"show_usage"} |-> TRUE], EmptyMap }

\* the user's line, as get_enhanced_input returns it: text or a descriptor
TextInputs == { Str(s) : s \in PlainTexts \cup CommandTexts }

----------------------------------------------------------------------------
(* progress_display.paused(): the display is paused inside the with block *)

\* __enter__ of progress_display.paused()
PausedEnter == TRUE

\* __exit__ of progress_display.paused(), on every way out of the block
PausedExit == FALSE

----------------------------------------------------------------------------
(* prompt_loop *)

NoExc == ""

\* StartAgent without the test that the agent is in the list
StartAgentUnchecked(default_agent, available_agents) ==
    LET agent0 == IF default_agent = "" /\ available_agents # <<>>
                  THEN available_agents[1] ELSE default_agent
    IN IF default_agent = "" /\ available_agents = <<>>
       THEN [exc |-> "ValueError", agent |-> default_agent]
       ELSE [exc |-> NoExc, agent |-> agent0]

\* StartAgent with a fallback to the first agent when the default is unknown
StartAgentFallback(default_agent, available_agents) ==
    IF available_agents = <<>>
    THEN [exc |-> "ValueError", agent |-> default_agent]
    ELSE IF default_agent \in Range(available_agents)
         THEN [exc |-> NoExc, agent |-> default_agent]
         ELSE [exc |-> NoExc, agent |-> available_agents[1]]

\* StartAgent taking the first agent of the list whatever the default is
StartAgentFirst(default_agent, available_agents) ==
    IF available_agents = <<>> \/ (default_agent # "" /\ default_agent \notin Range(available_agents))
    THEN [exc |-> "ValueError", agent |-> default_agent]
    ELSE [exc |-> NoExc, agent |-> available_agents[1]]

\* lines 72-80: the agent the session starts with, or the ValueError raised
StartAgent(default_agent, available_agents) ==
    LET agent0 == IF default_agent = "" /\ available_agents # <<>>
                  THEN available_agents[1] ELSE default_agent
    IN IF default_agent = "" /\ available_agents = <<>>
       THEN [exc |-> "ValueError", agent |-> default_agent]
       ELSE IF agent0 \notin Range(available_agents)
            THEN [exc |-> "ValueError", agent |-> agent0]
            ELSE [exc |-> NoExc, agent |-> agent0]

\* GetEnhancedInput without the default text
GetEnhancedInputNoDefault(agent_name, default, available_agents) ==
    [ fn |-> "get_enhanced_input", agent_name |-> agent_name, default |-> <<>>,
      show_default |-> FALSE, available_agent_names |-> available_agents ]

\* lines 89-97: await get_enhanced_input(...)
GetEnhancedInput(agent_name, default, available_agents) ==
    [ fn |-> "get_enhanced_input", agent_name |-> agent_name, default |-> default,
      show_default |-> (default # <<>>), available_agent_names |-> available_agents ]

\* SendCall with the message in upper case
SendCallUpper(user_input, agent_name) ==
    [ fn |-> "send", message |-> Upper(user_input), agent_name |-> agent_name ]

\* line 170: await send_func(user_input, agent)
SendCall(user_input, agent_name) ==
    [ fn |-> "send", message |-> user_input, agent_name |-> agent_name ]

\* AgentAfterSwitch without the membership test
AgentAfterSwitchUnchecked(cur, new_agent, available_agents_set) == new_agent

\* lines 105-111: the agent after a switch_agent command
AgentAfterSwitch(cur, new_agent, available_agents_set) ==
    IF new_agent \in available_agents_set THEN new_agent ELSE cur

\* line 110: what a switch_agent command prints
SwitchReport(new_agent, available_agents_set) ==
    IF new_agent \in available_agents_set THEN <<>> ELSE << "Agent not found" >>

\* SkipFurtherProcessing without the test of the command result's type
SkipUnlessEmptyDict(user_input, command_result) ==
    Truthy(command_result) \/ IsDict(user_input)

\* line 161: the input was a command, nothing is sent
SkipFurtherProcessing(user_input, command_result) ==
    Truthy(command_result) \/ IsDict(user_input) \/ IsDict(command_result)

\* IsStop on the first four letters
IsStopPrefix(user_input) ==
    Len(user_input.s) >= 4 /\ SubSeq(Upper(user_input.s), 1, 4) = STOP

\* IsStop without upper()
IsStopExactCase(user_input) == user_input.s = STOP

\* line 164: user_input.upper() == "STOP"
IsStop(user_input) == Upper(user_input.s) = STOP

\* IsBlank comparing with a space
IsBlankSpace(user_input) == user_input.s = <<" ">>

\* line 166: user_input == ""
IsBlank(user_input) == user_input.s = <<>>

\* line 170: result = await send_func(user_input, agent)
ResultAfterSend(reply) == reply

\* AfterSend with the exception swallowed
AfterSendSwallowed(sent) == "continue"

\* line 170: an exception of send_func is not handled in prompt_loop
AfterSend(sent) == IF sent.exc # NoExc THEN "raise" ELSE "continue"

----------------------------------------------------------------------------
(* What list_prompts_func returns, and the two catalogs built from it *)

\* an attribute (or dict key) of a Python object: missing, None, or a value
Missing == [st |-> "missing"]

NoneV == [st |-> "none"]

Val(v) == [st |-> "val", v |-> v]

\* getattr(obj, name, dflt) and dict.get(key, dflt): the default only
\* replaces a missing attribute, never a None one
GetAttr(attr, dflt) == IF attr = Missing THEN dflt ELSE attr

\* bool(x) of an attribute value that is None or a str
StrTruthy(attr) == attr.st = "val" /\ attr.v # ""

\* bool(x) of an attribute value that is None or a list
ListTruthy(attr) == attr.st = "val" /\ attr.v # <<>>

\* bool(x) of an attribute value that is None or a bool
BoolTruthy(attr) == attr.st = "val" /\ attr.v

\* from mcp_agent.mcp.mcp_aggregator import SEP
SEP == "::"

\* every name a server or a prompt can have, in the order of Python's str
\* comparison (code points: upper case before lower case)
NameOrder == << "Unknown", "ask", "greet", "plain", "svc1", "svc2", "{}" >>

Rank(name) == CHOOSE i \in DOMAIN NameOrder : NameOrder[i] = name

\* (a.server, a.name) <= (b.server, b.name), the key of both sorts
KeyLeq(a, b) ==
    \/ Rank(a.server) < Rank(b.server)
    \/ a.server = b.server /\ Rank(a.name) <= Rank(b.name)

RECURSIVE InsertSorted(_, _)
\* x into the sorted list l, after every element whose key is not greater
InsertSorted(l, x) ==
    IF l = <<>> THEN <<x>>
    ELSE IF KeyLeq(l[1], x) THEN <<l[1]>> \o InsertSorted(Tail(l), x)
         ELSE <<x>> \o l

\* SortPrompts leaving the prompts as they were listed
SortPromptsAsListed(l) == l

RECURSIVE SortPrompts(_)
\* list.sort(key=lambda p: (p["server"], p["name"])): a stable sort
SortPrompts(l) ==
    IF l = <<>> THEN <<>>
    ELSE InsertSorted(SortPrompts(SubSeq(l, 1, Len(l) - 1)), l[Len(l)])

RECURSIVE Flatten(_)
Flatten(ll) == IF ll = <<>> THEN <<>> ELSE ll[1] \o Flatten(Tail(ll))

\* str(prompt) of a loose entry that is not a dict with a name
StrOf(prompt) == IF prompt.k = "str" THEN prompt.s ELSE "{}"

\* len(x) of an attribute value: TypeError on None
LenRaises(attr) == attr = NoneV

\* lines 196-207: the entry of a prompt of a server in structured form
CatalogEntryObj(server_name, prompt) ==
    [ server |-> server_name,
      name |-> prompt.name,
      namespaced_name |-> server_name \o SEP \o prompt.name,
      description |-> GetAttr(prompt.description, Val("No description")),
      arg_count |-> Len(GetAttr(prompt.arguments, Val(<<>>)).v),
      arguments |-> GetAttr(prompt.arguments, Val(<<>>)) ]

\* lines 210-231: the entry of an element of a server in loose form
CatalogEntryLoose(server_name, prompt) ==
    IF prompt.k = "dict" /\ prompt.name # Missing
    THEN [ server |-> server_name,
           name |-> prompt.name.v,
           namespaced_name |-> server_name \o SEP \o prompt.name.v,
           description |-> GetAttr(prompt.description, Val("No description")),
           arg_count |-> Len(GetAttr(prompt.arguments, Val(<<>>)).v),
           arguments |-> GetAttr(prompt.arguments, Val(<<>>)) ]
    ELSE [ server |-> server_name,
           name |-> StrOf(prompt),
           namespaced_name |-> server_name \o SEP \o StrOf(prompt),
           description |-> Val("No description"),
           arg_count |-> 0,
           arguments |-> Val(<<>>) ]

\* lines 195, 208: which of the two forms a server's prompts_info has
IsStructured(prompts_info) == prompts_info.form = "obj" /\ prompts_info.prompts # <<>>

IsLoose(prompts_info) == prompts_info.form = "list" /\ prompts_info.prompts # <<>>

\* lines 194-231: len() of a None arguments value raises TypeError
EntryRaises(prompts_info, prompt) ==
    \/ IsStructured(prompts_info) /\ LenRaises(GetAttr(prompt.arguments, Val(<<>>)))
    \/ /\ ~IsStructured(prompts_info) /\ IsLoose(prompts_info)
       /\ prompt.k = "dict" /\ prompt.name # Missing
       /\ LenRaises(GetAttr(prompt.arguments, Val(<<>>)))

CollectRaises(prompt_servers) ==
    \E i \in DOMAIN prompt_servers :
        \E j \in DOMAIN prompt_servers[i].info.prompts :
            EntryRaises(prompt_servers[i].info, prompt_servers[i].info.prompts[j])

\* lines 194-231: the entries of one server, in the order listed
CollectServer(server_name, prompts_info) ==
    IF IsStructured(prompts_info)
    THEN [j \in DOMAIN prompts_info.prompts |-> CatalogEntryObj(server_name, prompts_info.prompts[j])]
    ELSE IF IsLoose(prompts_info)
         THEN [j \in DOMAIN prompts_info.prompts |-> CatalogEntryLoose(server_name, prompts_info.prompts[j])]
         ELSE <<>>

\* lines 189-236: the try block of _get_all_prompts after list_prompts_func
\* returned prompt_servers
BuildCatalog(prompt_servers) ==
    IF CollectRaises(prompt_servers)
    THEN [exc |-> "TypeError", ret |-> <<>>]
    ELSE [exc |-> NoExc,
          ret |-> SortPrompts(Flatten([i \in DOMAIN prompt_servers |->
                      CollectServer(prompt_servers[i].server, prompt_servers[i].info)]))]

----------------------------------------------------------------------------
(* _select_prompt: the catalog it builds itself *)

\* getattr(prompt, "name", "Unknown"): only an object has the attribute
PromptNameOf(prompt) == IF prompt.k = "obj" THEN prompt.name ELSE "Unknown"

\* getattr(prompt, attr, dflt) of a prompt entry: a dict or a str entry has
\* no such attribute
PromptAttr(prompt, attr, dflt) ==
    IF prompt.k = "obj" THEN GetAttr(attr, dflt) ELSE dflt

\* lines 359-372: one argument of the prompt, added to the lists; the loop
\* assigns the argument's description to the variable `description`
AddArgument(acc, arg) ==
    LET name == GetAttr(arg.name, NoneV)
        description == GetAttr(arg.description, NoneV)
    IN IF ~StrTruthy(name) THEN acc
       ELSE [ description |-> description,
              arg_names |-> Append(acc.arg_names, name.v),
              required_args |->
                  IF BoolTruthy(GetAttr(arg.required, Val(FALSE)))
                  THEN Append(acc.required_args, name.v) ELSE acc.required_args,
              optional_args |->
                  IF BoolTruthy(GetAttr(arg.required, Val(FALSE)))
                  THEN acc.optional_args ELSE Append(acc.optional_args, name.v),
              arg_descriptions |->
                  IF StrTruthy(description)
                  THEN [n \in DOMAIN acc.arg_descriptions \cup {name.v} |->
                           IF n = name.v THEN description.v ELSE acc.arg_descriptions[n]]
                  ELSE acc.arg_descriptions ]

RECURSIVE AddArguments(_, _)
\* lines 357-372: for arg in arguments
AddArguments(acc, arguments) ==
    IF arguments = <<>> THEN acc
    ELSE AddArguments(AddArgument(acc, arguments[1]), Tail(arguments))

\* lines 344-390: the entry _select_prompt makes of one prompt
WizardEntry(server_name, prompt) ==
    LET prompt_name == PromptNameOf(prompt)
        arguments == PromptAttr(prompt, IF prompt.k = "obj" THEN prompt.arguments ELSE Missing, NoneV)
        acc0 == [ description |-> PromptAttr(prompt,
                                     IF prompt.k = "obj" THEN prompt.description ELSE Missing,
                                     Val("No description")),
                  arg_names |-> <<>>, required_args |-> <<>>, optional_args |-> <<>>,
                  arg_descriptions |-> EmptyMap ]
        acc == IF ListTruthy(arguments) THEN AddArguments(acc0, arguments.v) ELSE acc0
    IN [ server |-> server_name,
         name |-> prompt_name,
         namespaced_name |-> server_name \o SEP \o prompt_name,
         description |-> acc.description,
         arg_count |-> Len(acc.arg_names),
         arg_names |-> acc.arg_names,
         required_args |-> acc.required_args,
         optional_args |-> acc.optional_args,
         arg_descriptions |-> acc.arg_descriptions ]

\* lines 333-341: the prompts of one server; a falsy prompts_info is skipped
WizardPrompts(prompts_info) ==
    IF prompts_info.form \in {"obj", "list"} THEN prompts_info.prompts ELSE <<>>

\* lines 331-397: all_prompts of _select_prompt, sorted
WizardCatalog(prompt_servers) ==
    SortPrompts(Flatten([i \in DOMAIN prompt_servers |->
        [j \in DOMAIN WizardPrompts(prompt_servers[i].info) |->
            WizardEntry(prompt_servers[i].server, WizardPrompts(prompt_servers[i].info)[j])]]))

----------------------------------------------------------------------------
(* The calls of one loop iteration.  A helper returns                      *)
(* [exc, calls, out (, ret)]: the exception it raises (NoExc for none),    *)
(* the calls it made to the injected capabilities, and what it printed.    *)
(* An answer of the environment to a call is [exc, ret].                   *)

Returned(v) == [exc |-> NoExc, ret |-> v]

Raised(e) == [exc |-> e, ret |-> NoneV]

\* ListPromptsCall with the agent as the server
ListPromptsCallForAgent(agent_name) == [fn |-> "list_prompts", server |-> Val(agent_name)]

\* lines 188, 324: await list_prompts_func(None)
ListPromptsCall(agent_name) == [fn |-> "list_prompts", server |-> NoneV]

\* lines 425, 475: await get_selection_input(...)
SelectionCall(default, options, allow_cancel) ==
    [fn |-> "get_selection_input", default |-> default, options |-> options,
     allow_cancel |-> allow_cancel]

\* lines 521, 533: await get_argument_input(...)
ArgumentCall(arg_name, description, required) ==
    [fn |-> "get_argument_input", arg_name |-> arg_name, description |-> description,
     required |-> required]

\* line 546: await apply_prompt_func(namespaced_name, arg_values, agent_name)
ApplyCall(namespaced_name, arg_values, agent_name) ==
    [fn |-> "apply_prompt", name |-> namespaced_name, args |-> arg_values,
     agent_name |-> agent_name]

\* lines 186-236: the try block of _get_all_prompts, given the answer of
\* list_prompts_func
GetAllPromptsTry(agent_name, answer) ==
    LET built == IF answer.exc # NoExc THEN [exc |-> answer.exc, ret |-> <<>>]
                 ELSE BuildCatalog(answer.ret)
    IN [ exc |-> built.exc, ret |-> built.ret,
         calls |-> << ListPromptsCall(agent_name) >>, out |-> <<>> ]

\* lines 238-245: except Exception in _get_all_prompts
GetAllPromptsExcept(tried) ==
    IF tried.exc # NoExc
    THEN [ exc |-> NoExc, ret |-> <<>>, calls |-> tried.calls,
           out |-> tried.out \o << "Error getting prompts" >> ]
    ELSE tried

\* lines 174-245: _get_all_prompts
GetAllPrompts(agent_name, answer) ==
    GetAllPromptsExcept(GetAllPromptsTry(agent_name, answer))

\* lines 263-300: _list_prompts, once _get_all_prompts returned
ListPromptsShown(got) ==
    [ exc |-> got.exc,
      calls |-> got.calls,
      out |-> << "Fetching prompts" >> \o got.out \o
              (IF got.ret # <<>> THEN << "Available MCP Prompts" >>
               ELSE << "No prompts available" >>) ]

\* lines 247-300: _list_prompts
ListPrompts(agent_name, answer) == ListPromptsShown(GetAllPrompts(NoneV, answer))

\* str.strip() of a text of letters, digits and spaces
RECURSIVE StripLeft(_)
StripLeft(s) == IF s # <<>> /\ s[1] = " " THEN StripLeft(Tail(s)) ELSE s

RECURSIVE StripRight(_)
StripRight(s) ==
    IF s # <<>> /\ s[Len(s)] = " " THEN StripRight(SubSeq(s, 1, Len(s) - 1)) ELSE s

Strip(s) == StripRight(StripLeft(s))

Digits == << "0", "1", "2", "3", "4", "5", "6", "7", "8", "9" >>

IsDigit(c) == \E d \in DOMAIN Digits : Digits[d] = c

DigitVal(c) == (CHOOSE d \in DOMAIN Digits : Digits[d] = c) - 1

RECURSIVE DecVal(_)
DecVal(s) == IF s = <<>> THEN 0 ELSE 10 * DecVal(SubSeq(s, 1, Len(s) - 1)) + DigitVal(s[Len(s)])

\* int(selection): ValueError unless the stripped text is decimal digits
ParseInt(s) ==
    IF Strip(s) # <<>> /\ \A i \in DOMAIN Strip(s) : IsDigit(Strip(s)[i])
    THEN Returned(DecVal(Strip(s)))
    ELSE Raised("ValueError")

\* PickByNumber taking the last prompt for a number past the end
PickByNumberClamped(prompts, selection) ==
    LET parsed == ParseInt(selection)
        idx == parsed.ret - 1
    IN IF parsed.exc # NoExc
       THEN [selected |-> <<>>, out |-> << "Invalid input, please enter a number" >>]
       ELSE IF 0 <= idx /\ idx < Len(prompts)
            THEN [selected |-> << prompts[idx + 1] >>, out |-> <<>>]
            ELSE [selected |-> << prompts[Len(prompts)] >>, out |-> <<>>]

\* lines 429-438, 486-495: the prompt a typed number selects, as a list of
\* at most one prompt, and the error printed instead
PickByNumber(prompts, selection) ==
    LET parsed == ParseInt(selection)
        idx == parsed.ret - 1
    IN IF parsed.exc # NoExc
       THEN [selected |-> <<>>, out |-> << "Invalid input, please enter a number" >>]
       ELSE IF 0 <= idx /\ idx < Len(prompts)
            THEN [selected |-> << prompts[idx + 1] >>, out |-> <<>>]
            ELSE [selected |-> <<>>, out |-> << "Invalid selection" >>]

\* MatchingPrompts on the name alone
MatchingPromptsByName(all_prompts, requested_name) ==
    SelectSeq(all_prompts, LAMBDA p : p.name = requested_name)

\* lines 401-405: the prompts whose name or namespaced name is requested
MatchingPrompts(all_prompts, requested_name) ==
    SelectSeq(all_prompts,
              LAMBDA p : p.name = requested_name \/ p.namespaced_name = requested_name)

\* lines 472: [str(i + 1) for i in range(len(all_prompts))], as the count
PromptNumbers(all_prompts) == Len(all_prompts)

\* lines 399-495: the selected prompt (a list of at most one), given the
\* answer of get_selection_input when it is asked
ChoosePrompt(all_prompts, requested_name, sel) ==
    IF StrTruthy(requested_name)
    THEN LET matching_prompts == MatchingPrompts(all_prompts, requested_name.v)
             selection == IF sel.ret = NoneV THEN <<>> ELSE sel.ret.v
             picked == PickByNumber(matching_prompts, selection)
             call == << SelectionCall(Val(<<"1">>), NoneV, FALSE) >>
         IN IF matching_prompts = <<>>
            THEN [exc |-> NoExc, selected |-> <<>>, calls |-> <<>>,
                  out |-> << "Prompt not found", "Available prompts" >>]
            ELSE IF Len(matching_prompts) = 1
                 THEN [exc |-> NoExc, selected |-> << matching_prompts[1] >>,
                       calls |-> <<>>, out |-> <<>>]
                 ELSE IF sel.exc # NoExc
                      THEN [exc |-> sel.exc, selected |-> <<>>, calls |-> call,
                            out |-> << "Multiple prompts match" >>]
                      ELSE [exc |-> NoExc, selected |-> picked.selected, calls |-> call,
                            out |-> << "Multiple prompts match" >> \o picked.out]
    ELSE LET call == << SelectionCall(NoneV, Val(PromptNumbers(all_prompts)), TRUE) >>
             cancelled == sel.ret = NoneV \/ sel.ret.v = <<>> \/ Strip(sel.ret.v) = <<>>
             picked == PickByNumber(all_prompts, sel.ret.v)
         IN IF sel.exc # NoExc
            THEN [exc |-> sel.exc, selected |-> <<>>, calls |-> call,
                  out |-> << "Available MCP Prompts" >>]
            ELSE IF cancelled
                 THEN [exc |-> NoExc, selected |-> <<>>, calls |-> call,
                       out |-> << "Available MCP Prompts", "Prompt selection cancelled" >>]
                 ELSE [exc |-> NoExc, selected |-> picked.selected, calls |-> call,
                       out |-> << "Available MCP Prompts" >> \o picked.out]

\* dict[key] = value
DictSet(d, key, value) == [k \in DOMAIN d \cup {key} |-> IF k = key THEN value ELSE d[k]]

\* arg_descriptions.get(arg_name, "")
ArgDescription(arg_descriptions, arg_name) ==
    IF arg_name \in DOMAIN arg_descriptions THEN arg_descriptions[arg_name] ELSE ""

\* StoreRequired storing truthy values only
StoreRequiredTruthy(arg_values, arg_name, arg_value) ==
    IF StrTruthy(arg_value) THEN DictSet(arg_values, arg_name, arg_value.v) ELSE arg_values

\* lines 526-527: a required argument is stored unless the input is None
StoreRequired(arg_values, arg_name, arg_value) ==
    IF arg_value # NoneV THEN DictSet(arg_values, arg_name, arg_value.v) ELSE arg_values

\* lines 538-539: an optional argument is stored when the input is truthy
StoreOptional(arg_values, arg_name, arg_value) ==
    IF StrTruthy(arg_value) THEN DictSet(arg_values, arg_name, arg_value.v) ELSE arg_values

RECURSIVE CollectArgs(_, _, _, _, _)
\* lines 519-539: one of the two loops over argument names; st is
\* [exc, calls, arg_values] so far, answers[name] the answer of
\* get_argument_input for that name
CollectArgs(st, names, required, arg_descriptions, answers) ==
    IF names = <<>> \/ st.exc # NoExc THEN st
    ELSE LET arg_name == names[1]
             call == ArgumentCall(arg_name, ArgDescription(arg_descriptions, arg_name), required)
             answer == answers[arg_name]
         IN CollectArgs(
                [ exc |-> answer.exc,
                  calls |-> Append(st.calls, call),
                  arg_values |->
                      IF answer.exc # NoExc THEN st.arg_values
                      ELSE IF required THEN StoreRequired(st.arg_values, arg_name, answer.ret)
                      ELSE StoreOptional(st.arg_values, arg_name, answer.ret) ],
                Tail(names), required, arg_descriptions, answers)

\* lines 497-539: the arguments of the selected prompt, required ones first
CollectAllArgs(selected_prompt, answers) ==
    CollectArgs(
        CollectArgs([exc |-> NoExc, calls |-> <<>>, arg_values |-> EmptyMap],
                    selected_prompt.required_args, TRUE,
                    selected_prompt.arg_descriptions, answers),
        selected_prompt.optional_args, FALSE, selected_prompt.arg_descriptions, answers)

\* what a helper has done so far, followed by what it does next
Then(done, step) ==
    [exc |-> step.exc, calls |-> done.calls \o step.calls, out |-> done.out \o step.out]

\* lines 320-324: the prompts are fetched
Fetched(agent_name) ==
    [exc |-> NoExc, calls |-> << ListPromptsCall(agent_name) >>, out |-> << "Fetching prompts" >>]

\* SelectPromptApply with the bare name of the prompt
SelectPromptApplyBareName(agent_name, selected_prompt, collected, apply) ==
    IF collected.exc # NoExc
    THEN [exc |-> collected.exc, calls |-> collected.calls, out |-> <<>>]
    ELSE [exc |-> apply.exc,
          calls |-> Append(collected.calls,
                           ApplyCall(selected_prompt.name, collected.arg_values, agent_name)),
          out |-> << "Applying prompt" >>]

\* lines 497-546: the arguments are collected, then the prompt is applied
SelectPromptApply(agent_name, selected_prompt, collected, apply) ==
    IF collected.exc # NoExc
    THEN [exc |-> collected.exc, calls |-> collected.calls, out |-> <<>>]
    ELSE [exc |-> apply.exc,
          calls |-> Append(collected.calls,
                           ApplyCall(selected_prompt.namespaced_name, collected.arg_values,
                                     agent_name)),
          out |-> << "Applying prompt" >>]

\* lines 399-546: what follows the choice of a prompt
SelectPromptChosen(agent_name, choice, env) ==
    IF choice.exc # NoExc \/ choice.selected = <<>> THEN choice
    ELSE Then(choice,
              SelectPromptApply(agent_name, choice.selected[1],
                                CollectAllArgs(choice.selected[1], env.arg), env.apply))

\* lines 392-546: what follows the building of all_prompts
SelectPromptListed(agent_name, requested_name, all_prompts, env) ==
    IF all_prompts = <<>>
    THEN [exc |-> NoExc, calls |-> <<>>, out |-> << "No prompts available for this agent" >>]
    ELSE SelectPromptChosen(agent_name, ChoosePrompt(all_prompts, requested_name, env.sel), env)

\* lines 320-546: the try block of _select_prompt.  env.list is the answer
\* of list_prompts_func, env.sel of get_selection_input, env.arg of
\* get_argument_input per argument name, env.apply of apply_prompt_func
SelectPromptTry(agent_name, requested_name, env) ==
    IF env.list.exc # NoExc
    THEN [exc |-> env.list.exc, calls |-> Fetched(agent_name).calls,
          out |-> Fetched(agent_name).out]
    ELSE Then(Fetched(agent_name),
              SelectPromptListed(agent_name, requested_name, WizardCatalog(env.list.ret), env))

\* SelectPromptExcept without the handler
SelectPromptNoExcept(tried) == tried

\* lines 548-552: except Exception in _select_prompt
SelectPromptExcept(tried) ==
    IF tried.exc # NoExc
    THEN [exc |-> NoExc, calls |-> tried.calls,
          out |-> tried.out \o << "Error selecting or applying prompt" >>]
    ELSE tried

\* lines 302-552: _select_prompt
SelectPrompt(agent_name, requested_name, env) ==
    SelectPromptExcept(SelectPromptTry(agent_name, requested_name, env))

----------------------------------------------------------------------------
(* prompt_loop: one iteration of the loop *)

\* command_result.get(key)
DictGet(x, k) == IF k \in DOMAIN x.d THEN Val(x.d[k]) ELSE NoneV

\* lines 127-148: a select_prompt command with a prompt_index, once
\* _get_all_prompts returned all_prompts
SelectIndexed(agent_name, prompt_index, all_prompts, env) ==
    IF all_prompts = <<>>
    THEN [exc |-> NoExc, calls |-> <<>>, out |-> << "No prompts available" >>]
    ELSE IF 1 <= prompt_index /\ prompt_index <= Len(all_prompts)
         THEN SelectPrompt(agent_name, Val(all_prompts[prompt_index].namespaced_name),
                           [list |-> env.list2, sel |-> env.sel, arg |-> env.arg,
                            apply |-> env.apply])
         ELSE Then([exc |-> NoExc, calls |-> <<>>, out |-> << "Invalid prompt number" >>],
                   ListPrompts(agent_name, env.list2))

\* lines 125-148: a select_prompt command with a prompt_index.  env.list1
\* answers the list_prompts_func call of _get_all_prompts, env.list2 the
\* call made by _select_prompt or _list_prompts afterwards
SelectByIndex(agent_name, prompt_index, got, env) ==
    IF got.exc # NoExc THEN got
    ELSE Then(got, SelectIndexed(agent_name, prompt_index, got.ret, env))

\* lines 117-154: a select_prompt command
SelectCommand(agent_name, command_result, env) ==
    LET prompt_name == DictGet(command_result, "prompt_name")
        prompt_index == DictGet(command_result, "prompt_index")
    IN IF prompt_index # NoneV
       THEN SelectByIndex(agent_name, prompt_index.v,
                          GetAllPrompts(agent_name, env.list1), env)
       ELSE SelectPrompt(agent_name, prompt_name,
                         [list |-> env.list1, sel |-> env.sel, arg |-> env.arg,
                          apply |-> env.apply])

\* an iteration that goes back to the top of the loop
Continue(agent_name, done) ==
    [ kind |-> IF done.exc # NoExc THEN "raise" ELSE "continue",
      agent |-> agent_name, calls |-> done.calls, out |-> done.out, exc |-> done.exc ]

Nothing == [exc |-> NoExc, calls |-> <<>>, out |-> <<>>]

\* lines 161-170: what the loop does with an input that the command
\* branches did not take
AfterCommands(agent_name, user_input, command_result) ==
    IF SkipFurtherProcessing(user_input, command_result) THEN Continue(agent_name, Nothing)
    ELSE IF IsStop(user_input)
         THEN [kind |-> "return", agent |-> agent_name, calls |-> <<>>, out |-> <<>>,
               exc |-> NoExc]
         ELSE IF IsBlank(user_input) THEN Continue(agent_name, Nothing)
              ELSE [kind |-> "send", agent |-> agent_name, calls |-> <<>>, out |-> <<>>,
                    exc |-> NoExc]

\* LoopBody without the tests of the two prompt capabilities
LoopBodyUnguarded(c, agent_name, user_input, command_result, env) ==
    LET available_agents_set == Range(c.available_agents)
    IN IF IsDict(command_result) /\ HasKey(command_result, "switch_agent")
       THEN Continue(AgentAfterSwitch(agent_name, command_result.d["switch_agent"],
                                      available_agents_set),
                     [exc |-> NoExc, calls |-> <<>>,
                      out |-> SwitchReport(command_result.d["switch_agent"],
                                           available_agents_set)])
       ELSE IF IsDict(command_result) /\ HasKey(command_result, "list_prompts")
            THEN Continue(agent_name, ListPrompts(agent_name, env.list1))
            ELSE IF IsDict(command_result) /\ HasKey(command_result, "select_prompt")
                 THEN Continue(agent_name, SelectCommand(agent_name, command_result, env))
                 ELSE AfterCommands(agent_name, user_input, command_result)

\* lines 100-170: the body of the with block for one input.  The result
\* says how the block is left: "continue", "return" (STOP), "send" (the
\* block ends and line 170 sends the input) or "raise"
LoopBody(c, agent_name, user_input, command_result, env) ==
    LET available_agents_set == Range(c.available_agents)
    IN IF IsDict(command_result) /\ HasKey(command_result, "switch_agent")
       THEN Continue(AgentAfterSwitch(agent_name, command_result.d["switch_agent"],
                                      available_agents_set),
                     [exc |-> NoExc, calls |-> <<>>,
                      out |-> SwitchReport(command_result.d["switch_agent"],
                                           available_agents_set)])
       ELSE IF IsDict(command_result) /\ HasKey(command_result, "list_prompts")
               /\ c.list_prompts_func
            THEN Continue(agent_name, ListPrompts(agent_name, env.list1))
            ELSE IF IsDict(command_result) /\ HasKey(command_result, "select_prompt")
                    /\ c.list_prompts_func /\ c.apply_prompt_func
                 THEN Continue(agent_name, SelectCommand(agent_name, command_result, env))
                 ELSE AfterCommands(agent_name, user_input, command_result)

----------------------------------------------------------------------------
(* The environment: the command handler, the prompt servers, the user *)

SelectDicts ==
    { [k \in {"select_prompt"} |-> TRUE] }
    \cup { [k \in {"select_prompt", "prompt_name"} |-> IF k = "prompt_name" THEN n ELSE TRUE] :
             n \in {"greet", "svc1::greet", "svc2::greet", "nope"} }
    \cup { [k \in {"select_prompt", "prompt_index"} |-> IF k = "prompt_index" THEN i ELSE TRUE] :
             i \in {0, 1, 2, 9} }

CommandDicts == SwitchDicts \cup ListDicts \cup SelectDicts \cup OtherDicts

UserInputs == TextInputs \cup { Dict(d) : d \in CommandDicts }

\* handle_special_commands(user_input, True): a descriptor comes back as it
\* is or as False, a command word as True, as an agent switch or as an
\* empty descriptor, any other text as False
HandleSpecialCommands(user_input) ==
    IF IsDict(user_input) THEN { user_input, Bool(FALSE) }
    ELSE IF user_input.s \in CommandTexts
         THEN { Bool(TRUE), Dict(EmptyMap) } \cup { Dict(d) : d \in SwitchDicts }
         ELSE { Bool(FALSE) }

\* the arguments of the prompts of the servers
PromptArg(name, description, required) ==
    [name |-> name, description |-> description, required |-> required]

\* prompts as objects with name, description and arguments attributes
GreetWithArgs ==
    [ k |-> "obj", name |-> "greet", description |-> Val("Says hello"),
      arguments |-> Val(<< PromptArg(Val("x"), Val("who"), Val(TRUE)),
                           PromptArg(Val("y"), NoneV, NoneV) >>) ]

GreetNoArgs ==
    [ k |-> "obj", name |-> "greet", description |-> Val("Greets"), arguments |-> Val(<<>>) ]

AskNoneArgs ==
    [ k |-> "obj", name |-> "ask", description |-> NoneV, arguments |-> NoneV ]

\* a prompt whose two arguments are both required, y listed before x
AskBothArgs ==
    [ k |-> "obj", name |-> "ask", description |-> Val("Asks"),
      arguments |-> Val(<< PromptArg(Val("y"), Val("what"), Val(TRUE)),
                           PromptArg(Val("x"), Val("whom"), Val(TRUE)) >>) ]

\* loose entries: a dict with a name, and a bare string
AskDict ==
    [ k |-> "dict", name |-> Val("ask"), description |-> Missing, arguments |-> Missing ]

PlainStr == [ k |-> "str", s |-> "plain" ]

Server(name, form, prompts) ==
    [ server |-> name, info |-> [form |-> form, prompts |-> prompts] ]

\* what list_prompts_func(None) returns: the servers in the order of the
\* mapping; <<>> is None or an empty mapping
Listings ==
    { <<>>,
      << Server("svc2", "obj", << GreetNoArgs >>), Server("svc1", "obj", << GreetWithArgs >>) >>,
      << Server("svc1", "list", << PlainStr, AskDict >>) >>,
      << Server("svc1", "obj", << AskNoneArgs >>) >>,
      << Server("svc1", "obj", << GreetNoArgs >>) >>,
      << Server("svc1", "obj", << AskBothArgs >>) >>,
      << Server("svc1", "none", <<>>), Server("svc2", "obj", <<>>) >> }

ListAnswers == { Raised("ListError") } \cup { Returned(l) : l \in Listings }

SelectionTexts == { <<"0">>, <<"1">>, <<"2">>, <<"9">>, <<"x">>, <<>> }

SelAnswers ==
    { Raised("InputError"), Returned(NoneV) } \cup { Returned(Val(t)) : t \in SelectionTexts }

ArgNames == {"x", "y"}

ArgAnswers == { Raised("InputError"), Returned(NoneV), Returned(Val("")), Returned(Val("v")) }

ApplyAnswers == { Raised("ApplyError"), Returned(NoneV) }

SendAnswers == { Raised("SendError") } \cup { Returned(r) : r \in Replies }

\* answers that stand for a call that is not made
NoAnswer == Returned(NoneV)

NoArgAnswers == [n \in ArgNames |-> Returned(Val("v"))]

NoEnv ==
    [ list1 |-> Returned(<<>>), list2 |-> Returned(<<>>), sel |-> NoAnswer,
      arg |-> NoArgAnswers, apply |-> NoAnswer ]

\* the calls the loop body makes for a command under env, with or without
\* the two prompt capabilities
Made(caps, command_result, env) ==
    LoopBody([available_agents |-> <<>>, list_prompts_func |-> caps[1],
              apply_prompt_func |-> caps[2]],
             "", command_result, command_result, env).calls

\* the answers of the environment, in the order the code may ask for them:
\* the two listings, the selection, the arguments x and y, the application
EnvStages == 6

\* the call that answer number stage answers is among the calls made
StageAsked(stage, made) ==
    CASE stage = 1 -> \E i \in DOMAIN made : made[i].fn = "list_prompts"
      [] stage = 2 -> \E i, j \in DOMAIN made :
                         i < j /\ made[i].fn = "list_prompts" /\ made[j].fn = "list_prompts"
      [] stage = 3 -> \E i \in DOMAIN made : made[i].fn = "get_selection_input"
      [] stage = 4 -> \E i \in DOMAIN made :
                         made[i].fn = "get_argument_input" /\ made[i].arg_name = "x"
      [] stage = 5 -> \E i \in DOMAIN made :
                         made[i].fn = "get_argument_input" /\ made[i].arg_name = "y"
      [] OTHER -> \E i \in DOMAIN made : made[i].fn = "apply_prompt"

StageAnswers(stage) ==
    CASE stage \in {1, 2} -> ListAnswers
      [] stage = 3 -> SelAnswers
      [] stage \in {4, 5} -> ArgAnswers
      [] OTHER -> ApplyAnswers

StageSet(stage, env, answer) ==
    CASE stage = 1 -> [env EXCEPT !.list1 = answer]
      [] stage = 2 -> [env EXCEPT !.list2 = answer]
      [] stage = 3 -> [env EXCEPT !.sel = answer]
      [] stage = 4 -> [env EXCEPT !.arg["x"] = answer]
      [] stage = 5 -> [env EXCEPT !.arg["y"] = answer]
      [] OTHER -> [env EXCEPT !.apply = answer]

RECURSIVE EnvsFrom(_, _, _, _)
\* the environments of one iteration that extend env from answer number
\* stage on: an answer is chosen for every call the iteration makes, and
\* left at its placeholder for the others
EnvsFrom(stage, env, caps, command_result) ==
    IF stage > EnvStages THEN { env }
    ELSE IF StageAsked(stage, Made(caps, command_result, env))
         THEN UNION { EnvsFrom(stage + 1, StageSet(stage, env, answer), caps, command_result) :
                        answer \in StageAnswers(stage) }
         ELSE EnvsFrom(stage + 1, env, caps, command_result)

\* the environments of one iteration
Envs(caps, command_result) == EnvsFrom(1, NoEnv, caps, command_result)

\* Envs, tabulated
EnvTable ==
    [ caps \in BOOLEAN \X BOOLEAN, d \in ListDicts \cup SelectDicts |-> Envs(caps, Dict(d)) ]

\* the parameters of prompt_loop: every default agent and list of agents
\* and every default text without the prompt capabilities, and two agents
\* with every combination of the capabilities
Configs ==
    [ default_agent : DefaultAgents, available_agents : AgentLists,
      list_prompts_func : {FALSE}, apply_prompt_func : {FALSE}, default : DefaultTexts ]
    \cup
    [ default_agent : {"a"}, available_agents : { <<"a", "b">> },
      list_prompts_func : BOOLEAN, apply_prompt_func : BOOLEAN, default : {<<>>} ]

----------------------------------------------------------------------------
(* The session *)

Stamp(call, display_paused) == [call |-> call, paused |-> display_paused]

StampAll(cs, display_paused) == [i \in DOMAIN cs |-> Stamp(cs[i], display_paused)]

\* Sending inside the with block: the display is still paused
SendingInsideWith(user_input, agent_name) ==
    << Stamp(SendCall(user_input, agent_name), PausedEnter) >>

\* lines 168-170: send_func is called after the with block is left
Sending(user_input, agent_name) ==
    << Stamp(SendCall(user_input, agent_name), PausedExit) >>

Init ==
    /\ cfg \in Configs
    /\ pc = "start"
    /\ agent = cfg.default_agent
    /\ result = <<>>
    /\ paused = FALSE
    /\ last = <<>>
    /\ calls = <<>>
    /\ out = <<>>
    /\ retval = <<>>
    /\ exc = NoExc
    /\ lastReply = <<>>
    /\ sendEver = FALSE
    /\ acted = FALSE
    /\ switched = FALSE
    /\ solicited = FALSE

\* lines 72-85: the checks of the arguments
Start ==
    /\ pc = "start"
    /\ \E started \in { StartAgent(cfg.default_agent, cfg.available_agents) } :
          /\ pc' = IF started.exc # NoExc THEN "failed" ELSE "loop"
          /\ exc' = started.exc
          /\ agent' = started.agent
    /\ result' = <<>>
    /\ UNCHANGED <<cfg, paused, last, calls, out, retval, lastReply, sendEver, acted,
                   switched, solicited>>

\* Solicit without the with block
SolicitUnpaused ==
    /\ pc = "loop"
    /\ pc' = "input"
    /\ paused' = paused
    /\ calls' = << Stamp(GetEnhancedInput(agent, cfg.default, cfg.available_agents),
                         paused) >>
    /\ last' = <<>>
    /\ out' = <<>>
    /\ solicited' = TRUE
    /\ UNCHANGED <<cfg, agent, result, retval, exc, lastReply, sendEver, acted, switched>>

\* lines 86-97: the top of the loop: the display is paused and the input is
\* asked for
Solicit ==
    /\ pc = "loop"
    /\ pc' = "input"
    /\ paused' = PausedEnter
    /\ calls' = << Stamp(GetEnhancedInput(agent, cfg.default, cfg.available_agents),
                         PausedEnter) >>
    /\ last' = <<>>
    /\ out' = <<>>
    /\ solicited' = TRUE
    /\ UNCHANGED <<cfg, agent, result, retval, exc, lastReply, sendEver, acted, switched>>

\* lines 99-172: the state after the input is handled, when the with block
\* is left as body says: at the top of the loop again, returned or raised
Finish(user_input, command_result, env, body, sent) ==
    LET inside == StampAll(body.calls, paused)
        sending == Sending(user_input.s, body.agent)
        sends == body.kind = "send"
        raises == body.kind = "raise" \/ (sends /\ AfterSend(sent) = "raise")
        returns == body.kind = "return"
    IN /\ last' = << [user_input |-> user_input, command_result |-> command_result,
                      env |-> env, sent |-> sent, agent |-> agent, result |-> result] >>
       /\ out' = body.out
       /\ agent' = body.agent
       /\ result' = IF sends /\ ~raises THEN ResultAfterSend(sent.ret) ELSE result
       /\ pc' = IF raises THEN "failed" ELSE IF returns THEN "done" ELSE "loop"
       /\ exc' = IF body.kind = "raise" THEN body.exc ELSE IF raises THEN sent.exc ELSE NoExc
       /\ retval' = IF returns THEN result ELSE retval
       /\ paused' = PausedExit
       /\ calls' = inside \o (IF sends THEN sending ELSE <<>>)
       /\ lastReply' = IF sends /\ sent.exc = NoExc THEN sent.ret ELSE lastReply
       /\ sendEver' = (sendEver \/ sends)
       /\ acted' = (acted \/ sends \/ IsDict(user_input) \/ command_result # Bool(FALSE))
       /\ switched' = (switched \/ (IsDict(command_result)
                                     /\ "switch_agent" \in DOMAIN command_result.d))
       /\ UNCHANGED <<cfg, solicited>>

\* lines 99-172: what the loop does with the input get_enhanced_input
\* returned
Iterate(user_input, command_result, env, sent) ==
    \E body \in { LoopBody(cfg, agent, user_input, command_result, env) } :
        Finish(user_input, command_result, env, body, sent)

\* the user types a line that is no command: a message, STOP or a blank line
PlainLine ==
    /\ pc = "input"
    /\ \E user_input \in { Str(s) : s \in PlainTexts } :
         \E command_result \in HandleSpecialCommands(user_input) :
           \E body \in { LoopBody(cfg, agent, user_input, command_result, NoEnv) } :
             \E sent \in IF body.kind = "send" THEN SendAnswers ELSE { NoAnswer } :
                Finish(user_input, command_result, NoEnv, body, sent)

\* lines 103-111: the command handler yields an agent switch
SwitchAgentCommand ==
    /\ pc = "input"
    /\ \E user_input \in UserInputs :
         \E command_result \in HandleSpecialCommands(user_input) :
           /\ IsDict(command_result)
           /\ "switch_agent" \in DOMAIN command_result.d
           /\ Iterate(user_input, command_result, NoEnv, NoAnswer)

\* lines 113-154: the command handler yields a prompt command with the
\* given key
PromptCommand(key) ==
    /\ pc = "input"
    /\ \E user_input \in UserInputs :
         \E command_result \in HandleSpecialCommands(user_input) :
           /\ IsDict(command_result)
           /\ key \in DOMAIN command_result.d
           /\ \E env \in EnvTable[<<cfg.list_prompts_func, cfg.apply_prompt_func>>,
                                  command_result.d] :
                Iterate(user_input, command_result, env, NoAnswer)

ListPromptsCommand == PromptCommand("list_prompts")

SelectPromptCommand == PromptCommand("select_prompt")

\* the command handler consumes the input, or yields a descriptor the loop
\* has no branch for, or the input itself is a descriptor
OtherCommand ==
    /\ pc = "input"
    /\ \E user_input \in UserInputs :
         \E command_result \in HandleSpecialCommands(user_input) :
           /\ \/ ~IsDict(command_result) /\ (IsDict(user_input) \/ command_result = Bool(TRUE))
              \/ IsDict(command_result)
                   /\ DOMAIN command_result.d \cap {"switch_agent", "list_prompts", "select_prompt"} = {}
           /\ Iterate(user_input, command_result, NoEnv, NoAnswer)

\* lines 86-100: get_enhanced_input or handle_special_commands raises: the
\* with block is left and the exception leaves prompt_loop
InputFails ==
    /\ pc = "input"
    /\ \E e \in {"InputError", "DispatchError"} : exc' = e
    /\ pc' = "failed"
    /\ paused' = PausedExit
    /\ UNCHANGED <<cfg, agent, result, last, calls, out, retval, lastReply, sendEver,
                   acted, switched, solicited>>

Next ==
    \/ Start
    \/ Solicit
    \/ PlainLine
    \/ SwitchAgentCommand
    \/ ListPromptsCommand
    \/ SelectPromptCommand
    \/ OtherCommand
    \/ InputFails

Spec == Init /\ [][Next]_vars

----------------------------------------------------------------------------
(* Vocabulary of the properties *)

\* an input has been handled; the state is the one its iteration ended in
Cycled == last # <<>>

LastInput == last[1].user_input

LastCommand == last[1].command_result

\* the calls of a capability among the calls of the last iteration
CallsOf(cs, fn) == { i \in DOMAIN cs : cs[i].call.fn = fn }

NoSend(cs) == CallsOf(cs, "send") = {}

\* the loop is waiting in a call of get_enhanced_input
Soliciting(cs) == Len(cs) = 1 /\ cs[1].call.fn = "get_enhanced_input"

\* the last iteration's command result is a switch_agent command
SwitchTo(l) ==
    IF l # <<>> /\ l[1].command_result.t = "dict"
       /\ "switch_agent" \in DOMAIN l[1].command_result.d
    THEN { l[1].command_result.d["switch_agent"] }
    ELSE {}

\* the last iteration's input is no command: text, and a False command result
PlainInput(l) ==
    /\ l # <<>>
    /\ l[1].user_input.t = "str"
    /\ l[1].command_result = Bool(FALSE)

IsSentinel(text) ==
    /\ Len(text) = 4
    /\ text[1] \in {"s", "S"}
    /\ text[2] \in {"t", "T"}
    /\ text[3] \in {"o", "O"}
    /\ text[4] \in {"p", "P"}

----------------------------------------------------------------------------
(* Properties *)

\* C1: in an iteration whose command result is a switch_agent command for
\* name n, send is not called; if n is an available agent the current agent
\* becomes n, otherwise the current agent is unchanged and an error is printed
SwitchAgentEffect ==
    [][ \A n \in SwitchTo(last') :
          pc = "input" =>
            /\ NoSend(calls')
            /\ n \in Range(cfg.available_agents) => agent' = n
            /\ n \notin Range(cfg.available_agents) =>
                 agent' = agent /\ out' = << "Agent not found" >>
            /\ pc' = "loop" ]_vars

\* C1 witness: a switch to the other available agent has taken place
SwitchedToOther ==
    /\ pc = "loop"
    /\ SwitchTo(last) = {"b"}
    /\ cfg.default_agent = "a"
    /\ agent = "b"
    /\ NoSend(calls)

\* C2: once STOP is entered, in any letter case, the session has returned,
\* and the value returned is the one the most recent send call returned, or
\* the empty string when send was never called
StopReturnsLastReply ==
    (PlainInput(last) /\ IsSentinel(LastInput.s)) =>
        /\ pc = "done"
        /\ retval = IF sendEver THEN lastReply ELSE <<>>

\* C2 witness: the session has returned a reply on a lower-case "stop"
StoppedAfterSend ==
    /\ pc = "done"
    /\ LastInput = Str(<<"s", "t", "o", "p">>)
    /\ sendEver
    /\ retval = <<"o", "k">>

\* C3: an input that is no command, not blank and not STOP causes exactly one
\* send call, with the input text as it is and the agent current at that
\* moment; the value send returns becomes the result
PlainInputIsSent ==
    [][ (pc = "input" /\ PlainInput(last') /\ last'[1].user_input.s # <<>>
         /\ ~IsSentinel(last'[1].user_input.s)) =>
          /\ Cardinality(CallsOf(calls', "send")) = 1
          /\ \A i \in CallsOf(calls', "send") :
               /\ calls'[i].call.message = last'[1].user_input.s
               /\ calls'[i].call.agent_name = agent
          /\ pc' = "loop" => result' = last'[1].sent.ret ]_vars

\* C3 witness: a message was sent to the agent switched to, and its reply kept
SentToSwitchedAgent ==
    /\ pc = "loop"
    /\ PlainInput(last)
    /\ LastInput.s = <<"h", "i">>
    /\ switched
    /\ agent = "b"
    /\ \E i \in CallsOf(calls, "send") : calls[i].call.agent_name = "b"
    /\ result = <<"o", "k">>

\* C4: send is not called in an iteration whose command result is a
\* descriptor or truthy, or whose input is itself a descriptor
CommandsAreNotSent ==
    (Cycled /\ (LastCommand.t = "dict" \/ LastCommand = Bool(TRUE) \/ LastInput.t = "dict"))
        => NoSend(calls)

\* C4 witness: the command handler gave an empty descriptor for a text input
EmptyDescriptorHandled ==
    /\ pc = "loop"
    /\ Cycled
    /\ LastInput.t = "str"
    /\ LastCommand = Dict(EmptyMap)
    /\ NoSend(calls)

\* C5: an iteration whose input is blank calls nothing, leaves the agent
\* and the result as they are, and ends at the top of the loop, where the
\* next input is asked for
BlankInputIgnored ==
    [][ (pc = "input" /\ PlainInput(last') /\ last'[1].user_input.s = <<>>) =>
          /\ NoSend(calls')
          /\ agent' = agent
          /\ result' = result
          /\ pc' = "loop"
          /\ calls' = <<>> ]_vars

\* C5 witness: a blank line after a reply was received
BlankAfterReply ==
    /\ pc = "loop"
    /\ PlainInput(last)
    /\ LastInput.s = <<>>
    /\ result = <<"h", "i">>
    /\ agent = "b"

\* prompt_loop raised ValueError before asking for any input or calling any
\* capability
FailedAtStart ==
    /\ pc = "failed"
    /\ exc = "ValueError"
    /\ ~solicited
    /\ ~sendEver
    /\ calls = <<>>

\* C6 as stated: the session fails at the start whenever the default agent
\* is not in a non-empty list of agents, and whenever the list is empty and
\* no default agent is given
AbsentDefaultFails ==
    ( /\ pc # "start"
      /\ \/ cfg.available_agents # <<>>
              /\ cfg.default_agent \notin Range(cfg.available_agents)
         \/ cfg.available_agents = <<>> /\ cfg.default_agent = "" )
        => FailedAtStart

\* C6 amended: the session fails at the start whenever a non-empty default
\* agent is not in a non-empty list of agents, and whenever the list is
\* empty and no default agent is given
NamedAbsentDefaultFails ==
    ( /\ pc # "start"
      /\ \/ cfg.available_agents # <<>> /\ cfg.default_agent # ""
              /\ cfg.default_agent \notin Range(cfg.available_agents)
         \/ cfg.available_agents = <<>> /\ cfg.default_agent = "" )
        => FailedAtStart

\* C6 witness: a session given an agent that is not in its list has failed
UnknownDefaultFailed ==
    /\ FailedAtStart
    /\ cfg.default_agent = UnknownAgent
    /\ cfg.available_agents = <<"a", "b">>

\* C7: with a default agent that is in the list of agents, the session
\* starts with the default agent as the current one, the first input is
\* asked for the default agent, and a message sent before any switch command
\* goes to the default agent
StartsWithDefaultAgent ==
    [][ (cfg.default_agent \in Range(cfg.available_agents)) =>
          /\ (pc = "start" /\ pc' # "start") =>
                pc' = "loop" /\ agent' = cfg.default_agent
          /\ (~solicited /\ solicited') =>
                /\ Soliciting(calls')
                /\ calls'[1].call.agent_name = cfg.default_agent
          /\ ~switched' =>
                \A i \in CallsOf(calls', "send") :
                    calls'[i].call.agent_name = cfg.default_agent ]_vars

\* C7 witness: the default agent is the second of the list and got a message
SecondAgentIsDefault ==
    /\ cfg.available_agents = <<"a", "b">>
    /\ cfg.default_agent = "b"
    /\ ~switched
    /\ \E i \in CallsOf(calls, "send") : calls[i].call.agent_name = "b"

\* C8 as stated: every input asked for after the first command or send has
\* an empty default text and show_default false
DefaultCollapses ==
    (pc = "input" /\ acted) =>
        /\ Soliciting(calls)
        /\ calls[1].call.default = <<>>
        /\ ~calls[1].call.show_default

\* C8 amended: every input of the session, before and after commands and
\* sends, is asked for with the default text given to the session, and
\* show_default is true exactly when that text is not empty
DefaultIsKept ==
    \A i \in CallsOf(calls, "get_enhanced_input") :
        /\ calls[i].call.default = cfg.default
        /\ calls[i].call.show_default = (cfg.default # <<>>)

\* C8 witness: the default text is offered again after a send
DefaultOfferedAfterSend ==
    /\ pc = "input"
    /\ acted
    /\ sendEver
    /\ cfg.default = <<"h", "i">>
    /\ Soliciting(calls)
    /\ calls[1].call.default = <<"h", "i">>
    /\ calls[1].call.show_default

\* the answers of the environment in the last iteration
LastEnv == last[1].env

\* the last iteration ran a list_prompts or select_prompt command in which a
\* capability raised: list_prompts_func at its first or second call,
\* get_selection_input, get_argument_input or apply_prompt_func
CapabilityRaised(l) ==
    /\ l # <<>>
    /\ l[1].command_result.t = "dict"
    /\ DOMAIN l[1].command_result.d \cap {"list_prompts", "select_prompt"} # {}
    /\ "switch_agent" \notin DOMAIN l[1].command_result.d
    /\ \/ l[1].env.list1.exc # NoExc
       \/ l[1].env.list2.exc # NoExc
       \/ l[1].env.sel.exc # NoExc
       \/ \E n \in ArgNames : l[1].env.arg[n].exc # NoExc
       \/ l[1].env.apply.exc # NoExc

\* C9: when a capability raises during a list_prompts or select_prompt
\* command, the error is printed and the iteration ends at the top of the
\* loop, with the agent and the result unchanged and nothing sent; when the
\* call of list_prompts_func for a prompt index raises, _get_all_prompts
\* returns the empty list: no prompt is selected and nothing is listed again
PromptFailuresAreCaught ==
    [][ (pc = "input" /\ CapabilityRaised(last')) =>
          /\ pc' = "loop" /\ exc' = NoExc
          /\ agent' = agent /\ result' = result
          /\ NoSend(calls')
          /\ \E i \in DOMAIN out' :
               out'[i] \in {"Error getting prompts", "Error selecting or applying prompt"}
          /\ ("prompt_index" \in DOMAIN last'[1].command_result.d
                /\ last'[1].env.list1.exc # NoExc) =>
               /\ out' = << "Error getting prompts", "No prompts available" >>
               /\ Cardinality(CallsOf(calls', "list_prompts")) = 1
               /\ CallsOf(calls', "apply_prompt") = {} ]_vars

\* C9 witness: apply_prompt_func raised after the arguments were collected
ApplyRaisedAndCaught ==
    /\ pc = "loop"
    /\ CapabilityRaised(last)
    /\ LastEnv.apply.exc # NoExc
    /\ CallsOf(calls, "get_argument_input") # {}
    /\ CallsOf(calls, "apply_prompt") # {}
    /\ result = <<"h", "i">>

\* C10: when send_func raises, prompt_loop raises the same exception: no
\* further input is asked for and nothing is returned
SendFailurePropagates ==
    (PlainInput(last) /\ CallsOf(calls, "send") # {} /\ last[1].sent.exc # NoExc) =>
        /\ pc = "failed"
        /\ exc = last[1].sent.exc
        /\ calls[Len(calls)].call.fn = "send"
        /\ ~ENABLED Solicit
        /\ retval = <<>>

\* C10 witness: send_func raised after an earlier message was answered
SendRaisedAfterReply ==
    /\ pc = "failed"
    /\ exc = "SendError"
    /\ result = <<"h", "i">>
    /\ calls[Len(calls)].call.fn = "send"

----------------------------------------------------------------------------
(* Vocabulary of the properties of the prompt commands *)

\* both prompt capabilities were given to the session
BothCapabilities == cfg.list_prompts_func /\ cfg.apply_prompt_func

\* the last iteration handled a select_prompt command with both capabilities
SelectHandled ==
    /\ Cycled
    /\ BothCapabilities
    /\ IsDict(LastCommand)
    /\ "select_prompt" \in DOMAIN LastCommand.d
    /\ DOMAIN LastCommand.d \cap {"switch_agent", "list_prompts"} = {}

\* the catalog the lookup of a prompt index went through
IndexCatalog == GetAllPrompts(agent, LastEnv.list1).ret

\* the runs of _select_prompt in the last iteration (none or one): the name
\* requested and the answer list_prompts_func gave to that run
WizardRuns ==
    IF ~SelectHandled THEN {}
    ELSE IF "prompt_index" \notin DOMAIN LastCommand.d
         THEN { [requested_name |-> DictGet(LastCommand, "prompt_name"),
                 listed |-> LastEnv.list1] }
         ELSE { [requested_name |-> Val(IndexCatalog[i].namespaced_name),
                 listed |-> LastEnv.list2] :
                  i \in {LastCommand.d["prompt_index"]} \cap DOMAIN IndexCatalog }

\* the catalog a run of _select_prompt built, when list_prompts_func returned
CatalogsOf(run) ==
    IF run.listed.exc = NoExc THEN { WizardCatalog(run.listed.ret) } ELSE {}

\* the positions in a catalog of the prompts a name stands for
Matches(catalog, requested_name) ==
    { i \in DOMAIN catalog :
        requested_name \in { catalog[i].name, catalog[i].server \o SEP \o catalog[i].name } }

\* no call of get_argument_input raised in the last iteration
ArgumentsGiven == \A n \in ArgNames : LastEnv.arg[n].exc = NoExc

\* C11: when _select_prompt is given a name that exactly one prompt of the
\* catalog has as its name or namespaced name, and the argument inputs
\* return, no selection is asked for and apply_prompt_func is called exactly
\* once, with server + SEP + name of that prompt and the current agent; a
\* prompt without arguments is applied with the empty dict and without any
\* argument input
SingleMatchApplied ==
    \A run \in WizardRuns :
      \A catalog \in CatalogsOf(run) :
        ( /\ StrTruthy(run.requested_name)
          /\ Cardinality(Matches(catalog, run.requested_name.v)) = 1
          /\ ArgumentsGiven ) =>
          \A i \in Matches(catalog, run.requested_name.v) :
            /\ CallsOf(calls, "get_selection_input") = {}
            /\ Cardinality(CallsOf(calls, "apply_prompt")) = 1
            /\ \A k \in CallsOf(calls, "apply_prompt") :
                 /\ calls[k].call.name = catalog[i].server \o SEP \o catalog[i].name
                 /\ calls[k].call.agent_name = agent
                 /\ catalog[i].arg_names = <<>> =>
                      /\ calls[k].call.args = EmptyMap
                      /\ CallsOf(calls, "get_argument_input") = {}

\* C11 witness: "greet" was requested by name, svc1 alone has a prompt of that
\* name, without arguments, and it was applied for the agent switched to
GreetOfOneServerApplied ==
    /\ pc = "loop"
    /\ SelectHandled
    /\ LastCommand.d = [k \in {"select_prompt", "prompt_name"} |->
                          IF k = "prompt_name" THEN "greet" ELSE TRUE]
    /\ LastEnv.list1 = Returned(<< Server("svc1", "obj", << GreetNoArgs >>) >>)
    /\ agent = "b"
    /\ Len(calls) = 2
    /\ calls[2].call = [fn |-> "apply_prompt", name |-> "svc1::greet", args |-> EmptyMap,
                        agent_name |-> "b"]

\* every prompt of the catalog has a namespaced name of its own, which is
\* not the bare name of a prompt
DistinctPrompts(catalog) ==
    \A a, b \in DOMAIN catalog :
        /\ catalog[a].name # catalog[b].server \o SEP \o catalog[b].name
        /\ a # b => <<catalog[a].server, catalog[a].name>> # <<catalog[b].server, catalog[b].name>>

\* C12: when two servers have a prompt of the same name, and the namespaced
\* name of one of the two is requested, that prompt is the only match: no
\* selection is asked for, the prompt is found, and apply_prompt_func is
\* called with the namespaced name requested and not with the other server's
NamespacedNameDisambiguates ==
    \A run \in WizardRuns :
      \A catalog \in CatalogsOf(run) :
        \A i, j \in DOMAIN catalog :
          ( /\ catalog[i].name = catalog[j].name
            /\ catalog[i].server # catalog[j].server
            /\ DistinctPrompts(catalog)
            /\ run.requested_name = Val(catalog[i].server \o SEP \o catalog[i].name) ) =>
            /\ CallsOf(calls, "get_selection_input") = {}
            /\ \A n \in DOMAIN out : out[n] \notin {"Prompt not found", "Multiple prompts match"}
            /\ ArgumentsGiven => Cardinality(CallsOf(calls, "apply_prompt")) = 1
            /\ \A k \in CallsOf(calls, "apply_prompt") :
                 /\ calls[k].call.name = catalog[i].server \o SEP \o catalog[i].name
                 /\ calls[k].call.name # catalog[j].server \o SEP \o catalog[j].name

\* C12 witness: svc1 and svc2 both have "greet"; "svc2::greet" was requested
\* by name and was applied
SecondServerGreetApplied ==
    /\ pc = "loop"
    /\ SelectHandled
    /\ "prompt_name" \in DOMAIN LastCommand.d
    /\ LastCommand.d["prompt_name"] = "svc2::greet"
    /\ LastEnv.list1 = Returned(<< Server("svc2", "obj", << GreetNoArgs >>),
                                   Server("svc1", "obj", << GreetWithArgs >>) >>)
    /\ Len(calls) = 2
    /\ calls[2].call.fn = "apply_prompt"
    /\ calls[2].call.name = "svc2::greet"

\* the texts that are a number from 1 to n, for n below 10
NumberTexts(n) == { << Digits[k + 1] >> : k \in 1..n }

\* the text get_selection_input returned in the last iteration; None is ""
SelectionText == IF LastEnv.sel.ret = NoneV THEN <<>> ELSE LastEnv.sel.ret.v

\* get_selection_input returned in the last iteration, for several prompts
\* matching the name requested, and what it returned is not the number of
\* one of them
InvalidMatchSelection ==
    \E run \in WizardRuns : \E catalog \in CatalogsOf(run) :
        /\ StrTruthy(run.requested_name)
        /\ Cardinality(Matches(catalog, run.requested_name.v)) > 1
        /\ LastEnv.sel.exc = NoExc
        /\ SelectionText \notin NumberTexts(Cardinality(Matches(catalog, run.requested_name.v)))

\* get_selection_input returned in the last iteration, for the whole
\* catalog, and what it returned is neither blank nor the number of a prompt
InvalidCatalogSelection ==
    \E run \in WizardRuns : \E catalog \in CatalogsOf(run) :
        /\ ~StrTruthy(run.requested_name)
        /\ catalog # <<>>
        /\ LastEnv.sel.exc = NoExc
        /\ SelectionText # <<>>
        /\ SelectionText \notin NumberTexts(Len(catalog))

\* the last iteration handled a select_prompt command whose prompt_index is
\* not the number of a prompt of the catalog
InvalidPromptIndex ==
    /\ SelectHandled
    /\ "prompt_index" \in DOMAIN LastCommand.d
    /\ LastCommand.d["prompt_index"] \notin DOMAIN IndexCatalog

\* C13: when the number typed for one of several matching prompts or for the
\* whole catalog, or the prompt_index of a select_prompt command, is not a
\* number of the prompts offered, an error is printed, apply_prompt_func is
\* not called, the agent and the result stay as they are and the loop goes on
InvalidSelectionRejected ==
    (InvalidMatchSelection \/ InvalidCatalogSelection \/ InvalidPromptIndex) =>
        /\ CallsOf(calls, "apply_prompt") = {}
        /\ CallsOf(calls, "get_argument_input") = {}
        /\ agent = last[1].agent
        /\ result = last[1].result
        /\ pc = "loop"
        /\ (InvalidMatchSelection \/ InvalidCatalogSelection) =>
             out[Len(out)] \in {"Invalid input, please enter a number", "Invalid selection"}
        /\ InvalidPromptIndex =>
             \E n \in DOMAIN out :
                 out[n] = IF IndexCatalog = <<>> THEN "No prompts available"
                          ELSE "Invalid prompt number"

\* C13 witness: "9" was typed when two prompts matched the name requested
NineOfTwoRejected ==
    /\ pc = "loop"
    /\ InvalidMatchSelection
    /\ SelectionText = <<"9">>
    /\ out[Len(out)] = "Invalid selection"
    /\ result = <<"h", "i">>

\* the calls of get_argument_input of the last iteration, in their order
ArgumentCalls == SelectSeq(calls, LAMBDA c : c.call.fn = "get_argument_input")

\* the prompts of the catalogs of the last iteration that apply_prompt_func
\* was called for
AppliedPrompts ==
    UNION { { catalog[i] :
                i \in { n \in DOMAIN catalog :
                          \E k \in CallsOf(calls, "apply_prompt") :
                              calls[k].call.name = catalog[n].namespaced_name } } :
            catalog \in UNION { CatalogsOf(run) : run \in WizardRuns } }

\* the arguments are asked for one by one, the required ones in their order
\* and then the optional ones in theirs, and the prompt is applied afterwards
AskedInOrder(prompt) ==
    /\ Len(ArgumentCalls) = Len(prompt.required_args) + Len(prompt.optional_args)
    /\ \A n \in DOMAIN ArgumentCalls :
         /\ ArgumentCalls[n].call.arg_name = (prompt.required_args \o prompt.optional_args)[n]
         /\ ArgumentCalls[n].call.required = (n <= Len(prompt.required_args))
    /\ calls[Len(calls)].call.fn = "apply_prompt"
    /\ Cardinality(CallsOf(calls, "apply_prompt")) = 1

\* the optional arguments for which a non-empty value was returned
OptionalGiven(prompt) ==
    { n \in Range(prompt.optional_args) : StrTruthy(LastEnv.arg[n].ret) }

\* the dict apply_prompt_func got has the given keys, each with the value
\* get_argument_input returned for it
AppliedWith(keys) ==
    \A k \in CallsOf(calls, "apply_prompt") :
        /\ DOMAIN calls[k].call.args = keys
        /\ \A n \in keys : calls[k].call.args[n] = LastEnv.arg[n].ret.v

\* C14 as stated: the dict given to apply_prompt_func has every required
\* argument, with the value returned for it, and the optional arguments with
\* a non-empty value
RequiredAlwaysStored ==
    \A prompt \in AppliedPrompts :
        /\ AskedInOrder(prompt)
        /\ AppliedWith(Range(prompt.required_args) \cup OptionalGiven(prompt))

\* C14 amended: the arguments are asked for one by one, required ones
\* first, before apply_prompt_func is called; the dict it gets has the
\* required arguments for which a value other than None was returned, the
\* optional ones for which a non-empty value was returned, and nothing else
RequiredStoredUnlessNone ==
    \A prompt \in AppliedPrompts :
        /\ AskedInOrder(prompt)
        /\ AppliedWith({ n \in Range(prompt.required_args) : LastEnv.arg[n].ret # NoneV }
                       \cup OptionalGiven(prompt))

\* C14 witness: a prompt was chosen from the catalog, both its required
\* arguments were asked for, y before x, and it was applied with the empty
\* string returned for y and the value returned for x
BothRequiredApplied ==
    /\ pc = "loop"
    /\ Len(calls) = 5
    /\ calls[2].call.fn = "get_selection_input"
    /\ calls[3].call.fn = "get_argument_input" /\ calls[3].call.arg_name = "y"
    /\ calls[4].call.fn = "get_argument_input" /\ calls[4].call.arg_name = "x"
    /\ calls[5].call.fn = "apply_prompt"
    /\ calls[5].call.args = [n \in {"x", "y"} |-> IF n = "x" THEN "v" ELSE ""]

\* the last iteration handled a list_prompts command without
\* list_prompts_func, or a select_prompt command without one of the two
\* capabilities
CapabilityMissing ==
    /\ Cycled
    /\ IsDict(LastCommand)
    /\ "switch_agent" \notin DOMAIN LastCommand.d
    /\ \/ "list_prompts" \in DOMAIN LastCommand.d /\ ~cfg.list_prompts_func
       \/ /\ "select_prompt" \in DOMAIN LastCommand.d
          /\ "list_prompts" \notin DOMAIN LastCommand.d
          /\ ~BothCapabilities

\* C15: a list_prompts command without list_prompts_func, and a
\* select_prompt command without list_prompts_func or apply_prompt_func,
\* calls nothing and prints nothing, leaves the agent and the result as they
\* are, raises nothing, and ends at the top of the loop
MissingCapabilityDrops ==
    CapabilityMissing =>
        /\ calls = <<>>
        /\ out = <<>>
        /\ agent = last[1].agent
        /\ result = last[1].result
        /\ exc = NoExc
        /\ pc = "loop"

\* C15 witness: a select_prompt command by index after a reply, in a session
\* that can list prompts but cannot apply them
SelectWithoutApplyDropped ==
    /\ CapabilityMissing
    /\ cfg.list_prompts_func
    /\ "prompt_index" \in DOMAIN LastCommand.d
    /\ result = <<"o", "k">>
    /\ pc = "loop"

\* C16: the display is paused whenever an input is being asked for, and is
\* running again when the handling of the input has ended: at the top of
\* the loop, after the return on STOP, and after an exception of
\* get_enhanced_input, of handle_special_commands or of a command's handling
DisplayPausedOnlyForInput ==
    /\ pc = "input" => paused
    /\ \A k \in CallsOf(calls, "get_enhanced_input") : calls[k].paused
    /\ pc \in {"start", "loop", "done", "failed"} => ~paused

\* C16 witness: get_enhanced_input raised after a reply was received, and
\* the display is running
InputRaisedDisplayRunning ==
    /\ pc = "failed"
    /\ exc = "InputError"
    /\ Soliciting(calls)
    /\ calls[1].paused
    /\ ~paused
    /\ result = <<"h", "i">>

\* C17: once the session has started, the current agent is one of the
\* available agents, and it changes only when a switch_agent command that
\* names an available agent is handled
AgentStaysAvailable ==
    [][ /\ (pc' \in {"loop", "input", "done"} \/ (pc' = "failed" /\ solicited')) =>
             agent' \in Range(cfg.available_agents)
        /\ (pc # "start" /\ agent' # agent) =>
             /\ pc = "input"
             /\ SwitchTo(last') = {agent'}
             /\ agent' \in Range(cfg.available_agents) ]_vars

\* C17 witness: after a switch to b and a reply, a select_prompt command was
\* handled and the agent is still b
AgentKeptByCommand ==
    /\ pc = "loop"
    /\ SelectHandled
    /\ switched
    /\ cfg.default_agent = "a"
    /\ agent = "b"
    /\ last[1].agent = "b"
    /\ CallsOf(calls, "apply_prompt") # {}
    /\ result = <<"h", "i">>

\* the session under the scheduling of the code: a loop that is at its top
\* asks for the next input
LiveSpec == Spec /\ WF_vars(Solicit)

\* the last iteration took the text STOP, in some letter case, as its input
StopEntered == PlainInput(last) /\ IsSentinel(LastInput.s)

\* C18: prompt_loop returns only in an iteration whose input is STOP in some
\* letter case, and returns the result; an iteration with any other input in
\* which nothing raises ends at the top of the loop, and from the top of the
\* loop the next input is asked for
OnlyStopReturns ==
    /\ [](pc = "done" => StopEntered /\ retval = result)
    /\ []((Cycled /\ ~StopEntered /\ exc = NoExc) => pc = "loop")
    /\ (pc = "loop" ~> pc = "input")

\* C18 witness: after a switch and a reply the loop is asking for the next
\* input
AskingAfterCommands ==
    /\ pc = "input"
    /\ Soliciting(calls)
    /\ switched
    /\ sendEver
    /\ result = <<"o", "k">>
    /\ calls[1].call.agent_name = "b"

\* C19: every call of list_prompts_func, by _list_prompts, by the lookup of
\* a prompt index and by _select_prompt, has None as its argument, whatever
\* the current agent is
ListingHasNoServerFilter ==
    \A k \in CallsOf(calls, "list_prompts") : calls[k].call = [fn |-> "list_prompts", server |-> NoneV]

\* C19 witness: after a switch to b, a prompt index was looked up and the
\* prompt applied for b: list_prompts_func was called twice, with None
ListedTwiceForIndex ==
    /\ pc = "loop"
    /\ SelectHandled
    /\ agent = "b"
    /\ Len(calls) >= 3
    /\ calls[1].call = [fn |-> "list_prompts", server |-> NoneV]
    /\ calls[2].call = [fn |-> "list_prompts", server |-> NoneV]
    /\ \E k \in CallsOf(calls, "apply_prompt") : calls[k].call.agent_name = "b"

\* the last element of a sequence first
RECURSIVE Reverse(_)
Reverse(s) == IF s = <<>> THEN <<>> ELSE Append(Reverse(Tail(s)), s[1])

\* a listing with its servers, and the prompts of each server, in the
\* opposite order
Reordered(listing) ==
    Reverse([i \in DOMAIN listing |->
                [listing[i] EXCEPT !.info.prompts = Reverse(listing[i].info.prompts)]])

\* a catalog is in ascending order of server, then of name
Ascending(catalog) ==
    \A i \in DOMAIN catalog : \A j \in DOMAIN catalog :
        i < j =>
          \/ Rank(catalog[i].server) < Rank(catalog[j].server)
          \/ /\ catalog[i].server = catalog[j].server
             /\ Rank(catalog[i].name) <= Rank(catalog[j].name)

\* the namespaced names of a catalog, by number
Numbering(catalog) == [i \in DOMAIN catalog |-> catalog[i].namespaced_name]

\* what list_prompts_func returned in the last iteration
LastListings ==
    IF Cycled THEN { a.ret : a \in { b \in {LastEnv.list1, LastEnv.list2} : b.exc = NoExc } }
    ELSE {}

\* C20: the catalog _get_all_prompts builds and the catalog _select_prompt
\* builds from what list_prompts_func returned are in ascending order of
\* (server, name), and number the namespaced names in the same way when the
\* servers and their prompts are listed in another order
CatalogsInOrder ==
    \A listing \in LastListings :
        /\ Ascending(BuildCatalog(listing).ret)
        /\ Ascending(WizardCatalog(listing))
        /\ Numbering(BuildCatalog(Reordered(listing)).ret) = Numbering(BuildCatalog(listing).ret)
        /\ Numbering(WizardCatalog(Reordered(listing))) = Numbering(WizardCatalog(listing))

\* C20 witness: svc2 was listed before svc1, number 1 was chosen from the
\* whole catalog, and the prompt of svc1 was applied
FirstOfSortedApplied ==
    /\ pc = "loop"
    /\ SelectHandled
    /\ LastCommand.d = [k \in {"select_prompt"} |-> TRUE]
    /\ LastEnv.list1 = Returned(<< Server("svc2", "obj", << GreetNoArgs >>),
                                   Server("svc1", "obj", << GreetWithArgs >>) >>)
    /\ LastEnv.sel = Returned(Val(<<"1">>))
    /\ \E k \in CallsOf(calls, "apply_prompt") : calls[k].call.name = "svc1::greet"

\* the last iteration handled a select_prompt command with a prompt_index,
\* list_prompts_func returned the same listing to both of its calls, no
\* argument input raised, and the index is a number of the catalog
\* _get_all_prompts made of the listing
IndexInCatalog ==
    /\ SelectHandled
    /\ "prompt_index" \in DOMAIN LastCommand.d
    /\ LastEnv.list1.exc = NoExc
    /\ LastEnv.list2 = LastEnv.list1
    /\ ArgumentsGiven
    /\ LastCommand.d["prompt_index"] \in DOMAIN IndexCatalog

\* C21: a select_prompt command with a prompt_index i, 1 <= i <= N, over the
\* catalog of N prompts that _get_all_prompts makes of servers in structured
\* or in loose form, applies the i-th prompt of the sorted catalog:
\* apply_prompt_func is called once, with that prompt's namespaced name and
\* the current agent, and no prompt selection is asked for
IndexedPromptApplied ==
    IndexInCatalog =>
        /\ CallsOf(calls, "get_selection_input") = {}
        /\ Cardinality(CallsOf(calls, "apply_prompt")) = 1
        /\ \A k \in CallsOf(calls, "apply_prompt") :
             /\ calls[k].call.name = IndexCatalog[LastCommand.d["prompt_index"]].namespaced_name
             /\ calls[k].call.agent_name = last[1].agent

\* a catalog compared on server, name, namespaced name and description
Described(catalog) ==
    [i \in DOMAIN catalog |->
        [ server |-> catalog[i].server, name |-> catalog[i].name,
          namespaced_name |-> catalog[i].namespaced_name,
          description |-> catalog[i].description ]]

\* C22: for every listing list_prompts_func returns, of servers in
\* structured form, of loose lists of dicts with a name and of loose lists
\* of other entries, the catalog _select_prompt builds has the same
\* entries in the same order, compared on server, name, namespaced name and
\* description, as the catalog _get_all_prompts returns for the listing; so
\* the description of an entry is the prompt's own or "No description",
\* also when the prompt's arguments have descriptions
InlineCatalogAgrees ==
    \A run \in WizardRuns :
        \A catalog \in CatalogsOf(run) :
            Described(catalog) = Described(GetAllPrompts(agent, run.listed).ret)

\* the capabilities a list_prompts or select_prompt command calls
PromptCapabilities ==
    {"list_prompts", "apply_prompt", "get_selection_input", "get_argument_input"}

\* C23: list_prompts_func, apply_prompt_func, get_selection_input and
\* get_argument_input are called only while the display is paused; send_func
\* is called only when the display is running again, after the with block of
\* its iteration was left; and the display is paused again when the next
\* input is asked for
SuspensionCoversCommands ==
    /\ \A k \in DOMAIN calls :
         calls[k].call.fn \in PromptCapabilities => calls[k].paused
    /\ \A k \in CallsOf(calls, "send") : ~calls[k].paused
    /\ (sendEver /\ pc = "input") =>
         /\ paused
         /\ Soliciting(calls)
         /\ calls[1].paused

\* C23 witness: after a message was sent and answered, a prompt was chosen
\* from the catalog, its arguments were asked for and it was applied, every
\* call with the display paused, and the display is running again
AppliedWhilePaused ==
    /\ pc = "loop"
    /\ SelectHandled
    /\ sendEver
    /\ result = <<"h", "i">>
    /\ ~paused
    /\ \A fn \in PromptCapabilities :
         \E k \in CallsOf(calls, fn) : calls[k].paused

====
